---- MODULE Spec2Model ----
(***************************************************************************)
(* btl.run API: the Lambda request handler (backend/functions/api) and the *)
(* shared response envelope and error taxonomy (backend/shared).           *)
(*                                                                         *)
(* Text (paths, messages, JSON documents) is modelled by TLA+ strings; a   *)
(* character is a string of length one.  JSON documents are produced and   *)
(* read character by character, as serde_json does.                        *)
(***************************************************************************)
EXTENDS Naturals, Sequences, FiniteSets, TLC

VARIABLES
    shared_version,   \* CARGO_PKG_VERSION baked into the shared crate
    api_version,      \* CARGO_PKG_VERSION baked into the api crate
    slots,            \* invocations of handler() in flight, one per slot
    main_pc,          \* where main() is: "start" before the run loop, "run" in it
    nlog,             \* structured log entries emitted so far (level INFO, the default)
    probe             \* one envelope / error value taken through the shared library

vars == <<shared_version, api_version, slots, main_pc, nlog, probe>>

(***************************************************************************)
(* Bounds                                                                  *)
(***************************************************************************)
NumSlots == 2
MaxRequests == 3
MaxMsgLen == 2
MaxDepth == 4

(***************************************************************************)
(* Option<T>                                                               *)
(***************************************************************************)
None == [some |-> FALSE]
Some(x) == [some |-> TRUE, v |-> x]

(***************************************************************************)
(* Characters                                                              *)
(***************************************************************************)
CharAt(s, i) == SubSeq(s, i, i)

\* The characters of the model are the ASCII code points U+0001..U+007F
\* without U+0060, which a string of the model cannot hold.  AsciiLow lists
\* U+0001..U+005F and AsciiHigh U+0061..U+007F, in code order; the control
\* characters stand in the two strings as themselves.
AsciiLow == "\t\n\f\r !\"#$%&'()*+,-./0123456789:;<=>?@ABCDEFGHIJKLMNOPQRSTUVWXYZ[\\]^_"
AsciiHigh == "abcdefghijklmnopqrstuvwxyz{|}~"

Codes == (1..95) \cup (97..127)

FromCode(n) ==
    CASE n \in 1..95 -> CharAt(AsciiLow, n)
      [] n \in 97..127 -> CharAt(AsciiHigh, n - 96)

Ord(c) == CHOOSE n \in Codes : FromCode(n) = c

\* the characters below U+0020
ControlChars == {FromCode(n) : n \in 1..31}

HexDigits == "0123456789abcdef"

\* the value of a hexadecimal digit, either case; 16 for any other character
HexVal(c) ==
    IF \E k \in 1..16 : CharAt(HexDigits, k) = c
    THEN (CHOOSE k \in 1..16 : CharAt(HexDigits, k) = c) - 1
    ELSE IF \E k \in 1..6 : CharAt("ABCDEF", k) = c
    THEN (CHOOSE k \in 1..6 : CharAt("ABCDEF", k) = c) + 9
    ELSE 16

Digits == {"0", "1", "2", "3", "4", "5", "6", "7", "8", "9"}

RECURSIVE StrLess(_, _)
\* byte-wise lexicographic order of two strings (String's Ord)
StrLess(a, b) ==
    IF b = "" THEN FALSE
    ELSE IF a = "" THEN TRUE
    ELSE IF CharAt(a, 1) = CharAt(b, 1)
         THEN StrLess(SubSeq(a, 2, Len(a)), SubSeq(b, 2, Len(b)))
         ELSE Ord(CharAt(a, 1)) < Ord(CharAt(b, 1))

(***************************************************************************)
(* JSON documents as trees.  An object is a sequence of <<key, value>>     *)
(* members in the order they are written.                                  *)
(***************************************************************************)
JNull == [t |-> "null"]
JBool(b) == [t |-> "bool", b |-> b]
JStr(s) == [t |-> "str", s |-> s]
\* a number, kept as its digits
JNum(n) == [t |-> "num", n |-> n]
JArr(a) == [t |-> "arr", a |-> a]
JObj(m) == [t |-> "obj", m |-> m]

Keys(m) == {m[i][1] : i \in 1..Len(m)}
Member(m, k) == m[CHOOSE i \in 1..Len(m) : m[i][1] = k][2]
Count(m, k) == Cardinality({i \in 1..Len(m) : m[i][1] = k})

RECURSIVE SortedMembers(_)
\* the members of a map keyed by String, in key order (BTreeMap iteration)
SortedMembers(f) ==
    IF DOMAIN f = {} THEN <<>>
    ELSE LET k == CHOOSE x \in DOMAIN f : \A y \in DOMAIN f : y = x \/ StrLess(x, y)
         IN <<<<k, f[k]>>>> \o SortedMembers([x \in DOMAIN f \ {k} |-> f[x]])

\* serde_json::Map built by inserting the members in order: a later
\* insertion of a key replaces the earlier one, iteration is in key order
JsonMap(m) ==
    SortedMembers([k \in Keys(m) |->
        m[CHOOSE i \in 1..Len(m) :
            m[i][1] = k /\ \A j \in 1..Len(m) : m[j][1] = k => j <= i][2]])

(***************************************************************************)
(* serde_json::to_string                                                   *)
(***************************************************************************)
\* the escape table of serde_json: quote, backslash, \b \t \n \f \r, and
\* \u00XX for the other characters below U+0020
EscapeChar(c) ==
    IF c = "\"" THEN "\\\""
    ELSE IF c = "\\" THEN "\\\\"
    ELSE IF c \notin ControlChars THEN c
    ELSE IF c = FromCode(8) THEN "\\b"
    ELSE IF c = "\t" THEN "\\t"
    ELSE IF c = "\n" THEN "\\n"
    ELSE IF c = "\f" THEN "\\f"
    ELSE IF c = "\r" THEN "\\r"
    ELSE "\\u00" \o CharAt(HexDigits, (Ord(c) \div 16) + 1)
                  \o CharAt(HexDigits, (Ord(c) % 16) + 1)

RECURSIVE Escape(_)
Escape(s) ==
    IF s = "" THEN ""
    ELSE EscapeChar(CharAt(s, 1)) \o Escape(SubSeq(s, 2, Len(s)))

Quote(s) == "\"" \o Escape(s) \o "\""

RECURSIVE Write(_)
RECURSIVE WriteElems(_)
RECURSIVE WriteMembers(_)
Write(j) ==
    CASE j.t = "null" -> "null"
      [] j.t = "bool" -> (IF j.b THEN "true" ELSE "false")
      [] j.t = "str"  -> Quote(j.s)
      [] j.t = "num"  -> j.n
      [] j.t = "arr"  -> "[" \o WriteElems(j.a) \o "]"
      [] j.t = "obj"  -> "{" \o WriteMembers(j.m) \o "}"

WriteElems(a) ==
    IF a = <<>> THEN ""
    ELSE Write(a[1]) \o (IF Len(a) > 1 THEN "," ELSE "") \o WriteElems(Tail(a))

WriteMembers(m) ==
    IF m = <<>> THEN ""
    ELSE Quote(m[1][1]) \o ":" \o Write(m[1][2])
         \o (IF Len(m) > 1 THEN "," ELSE "") \o WriteMembers(Tail(m))

(***************************************************************************)
(* serde_json::from_str: the reader.  A position is an index into the      *)
(* text; a result is Fail or [ok, v, i] with i the position after the      *)
(* value.  A string read from the text remembers whether it held an escape *)
(* (a string with an escape cannot be borrowed from the input).            *)
(***************************************************************************)
Fail == [ok |-> FALSE]
Ok(v, i) == [ok |-> TRUE, v |-> v, i |-> i]

IsWs(c) == c \in {" ", "\n", "\t", "\r"}

RECURSIVE SkipWs(_, _)
SkipWs(s, i) ==
    IF i <= Len(s) /\ IsWs(CharAt(s, i)) THEN SkipWs(s, i + 1) ELSE i

StartsWith(s, i, w) == i + Len(w) - 1 <= Len(s) /\ SubSeq(s, i, i + Len(w) - 1) = w

\* the character a one-letter escape stands for (\u is read by ScanStr)
Unescape(d) ==
    IF d \in {"\"", "\\", "/"} THEN Some(d)
    ELSE IF d = "b" THEN Some(FromCode(8))
    ELSE IF d = "f" THEN Some("\f")
    ELSE IF d = "n" THEN Some("\n")
    ELSE IF d = "r" THEN Some("\r")
    ELSE IF d = "t" THEN Some("\t")
    ELSE None

\* the four hexadecimal digits at s[i..i+3] as a number, or -1
Hex4(s, i) ==
    IF i + 3 > Len(s) \/ \E k \in 0..3 : HexVal(CharAt(s, i + k)) = 16 THEN 0 - 1
    ELSE HexVal(CharAt(s, i)) * 4096 + HexVal(CharAt(s, i + 1)) * 256
         + HexVal(CharAt(s, i + 2)) * 16 + HexVal(CharAt(s, i + 3))

\* What is known of a string read so far: esc, it held an escape; lone,
\* it held a surrogate escape without its pair; out, it held a character
\* that no string of the model can hold (U+0000, U+0060, above U+007F),
\* which stands in the text read as "?".  The reader of a value that is
\* kept refuses a lone surrogate; the reader of a value that is skipped
\* (under a key the struct does not know) only checks the four digits.
\* Both are this scan: lone is recorded here and refused where the string
\* is kept.
Plain == [esc |-> FALSE, lone |-> FALSE, out |-> FALSE]

\* s[i] is the u of a \u escape: what it stands for and the position after
\* it, or Fail when the four digits are not hexadecimal
ScanUnicode(s, i) ==
    LET n == Hex4(s, i + 1) IN
    IF n < 0 THEN Fail
    ELSE IF n \in 56320..57343 THEN Ok([c |-> "?", lone |-> TRUE, out |-> FALSE], i + 5)
    ELSE IF n \in 55296..56319 THEN
        IF /\ StartsWith(s, i + 5, "\\u")
           /\ Hex4(s, i + 7) \in 56320..57343
        THEN Ok([c |-> "?", lone |-> FALSE, out |-> TRUE], i + 11)
        ELSE Ok([c |-> "?", lone |-> TRUE, out |-> FALSE], i + 5)
    ELSE IF n \in Codes THEN Ok([c |-> FromCode(n), lone |-> FALSE, out |-> FALSE], i + 5)
    ELSE Ok([c |-> "?", lone |-> FALSE, out |-> TRUE], i + 5)

RECURSIVE ScanStr(_, _, _, _)
\* s[i..] is the inside of a string literal; acc is what was read so far
ScanStr(s, i, acc, fl) ==
    IF i > Len(s) THEN Fail
    ELSE LET c == CharAt(s, i) IN
         IF c = "\"" THEN
             Ok([t |-> "str", s |-> acc, esc |-> fl.esc, lone |-> fl.lone, out |-> fl.out],
                i + 1)
         ELSE IF c = "\\" THEN
             IF i + 1 > Len(s) THEN Fail
             ELSE IF CharAt(s, i + 1) = "u" THEN
                 LET u == ScanUnicode(s, i + 1) IN
                 IF u.ok
                 THEN ScanStr(s, u.i, acc \o u.v.c,
                              [esc |-> TRUE, lone |-> fl.lone \/ u.v.lone,
                               out |-> fl.out \/ u.v.out])
                 ELSE Fail
             ELSE IF ~Unescape(CharAt(s, i + 1)).some THEN Fail
             ELSE ScanStr(s, i + 2, acc \o Unescape(CharAt(s, i + 1)).v,
                          [fl EXCEPT !.esc = TRUE])
         ELSE IF c \in ControlChars THEN Fail
         ELSE ScanStr(s, i + 1, acc \o c, fl)

RECURSIVE SkipDigits(_, _)
SkipDigits(s, i) ==
    IF i <= Len(s) /\ CharAt(s, i) \in Digits THEN SkipDigits(s, i + 1) ELSE i

IsDigitAt(s, i) == i <= Len(s) /\ CharAt(s, i) \in Digits

\* s[i] is a minus sign or a digit: the number that starts there.  An
\* integer part is 0 or starts with 1-9; a fraction and an exponent need a
\* digit each.
ScanNumber(s, i) ==
    LET a == IF StartsWith(s, i, "-") THEN i + 1 ELSE i
        b == IF StartsWith(s, a, "0") THEN a + 1 ELSE SkipDigits(s, a)
        c == IF StartsWith(s, b, ".") THEN SkipDigits(s, b + 1) ELSE b
        x == IF StartsWith(s, c, "e") \/ StartsWith(s, c, "E")
             THEN (IF StartsWith(s, c + 1, "+") \/ StartsWith(s, c + 1, "-")
                   THEN c + 2 ELSE c + 1)
             ELSE c
        d == IF x > c THEN SkipDigits(s, x) ELSE c
    IN IF b = a THEN Fail
       ELSE IF StartsWith(s, a, "0") /\ IsDigitAt(s, b) THEN Fail
       ELSE IF StartsWith(s, b, ".") /\ c = b + 1 THEN Fail
       ELSE IF x > c /\ d = x THEN Fail
       ELSE Ok(JNum(SubSeq(s, i, d - 1)), d)

RECURSIVE ParseValue(_, _)
RECURSIVE ParseElems(_, _, _)
RECURSIVE ParseMembers(_, _, _)
ParseValue(s, i0) ==
    LET i == SkipWs(s, i0) IN
    IF StartsWith(s, i, "null") THEN Ok(JNull, i + 4)
    ELSE IF StartsWith(s, i, "true") THEN Ok(JBool(TRUE), i + 4)
    ELSE IF StartsWith(s, i, "false") THEN Ok(JBool(FALSE), i + 5)
    ELSE IF StartsWith(s, i, "\"") THEN ScanStr(s, i + 1, "", Plain)
    ELSE IF StartsWith(s, i, "-") \/ IsDigitAt(s, i) THEN ScanNumber(s, i)
    ELSE IF StartsWith(s, i, "[") THEN
        IF StartsWith(s, SkipWs(s, i + 1), "]")
        THEN Ok(JArr(<<>>), SkipWs(s, i + 1) + 1)
        ELSE ParseElems(s, i + 1, <<>>)
    ELSE IF StartsWith(s, i, "{") THEN
        IF StartsWith(s, SkipWs(s, i + 1), "}")
        THEN Ok(JObj(<<>>), SkipWs(s, i + 1) + 1)
        ELSE ParseMembers(s, i + 1, <<>>)
    ELSE Fail

ParseElems(s, i, acc) ==
    LET r == ParseValue(s, i) IN
    IF ~r.ok THEN Fail
    ELSE LET j == SkipWs(s, r.i) IN
         IF StartsWith(s, j, ",") THEN ParseElems(s, j + 1, Append(acc, r.v))
         ELSE IF StartsWith(s, j, "]") THEN Ok(JArr(Append(acc, r.v)), j + 1)
         ELSE Fail

ParseMembers(s, i0, acc) ==
    LET i == SkipWs(s, i0) IN
    IF ~StartsWith(s, i, "\"") THEN Fail
    ELSE LET k == ScanStr(s, i + 1, "", Plain) IN
         IF ~k.ok THEN Fail
         ELSE LET c == SkipWs(s, k.i) IN
              IF ~StartsWith(s, c, ":") THEN Fail
              ELSE LET r == ParseValue(s, c + 1) IN
                   IF ~r.ok THEN Fail
                   ELSE LET j == SkipWs(s, r.i)
                            m == Append(acc, <<k.v.s, r.v, k.v>>)
                        IN IF StartsWith(s, j, ",") THEN ParseMembers(s, j + 1, m)
                           ELSE IF StartsWith(s, j, "}") THEN Ok(JObj(m), j + 1)
                           ELSE Fail

\* the whole text is one JSON value
Parse(s) ==
    LET r == ParseValue(s, 1) IN
    IF r.ok /\ SkipWs(s, r.i) = Len(s) + 1 THEN r ELSE Fail

(***************************************************************************)
(* Payload values (the T of ApiResponse<T>), tagged with their Rust type   *)
(***************************************************************************)
Unit == [ty |-> "unit"]
String(s) == [ty |-> "String", s |-> s]
StrRef(s) == [ty |-> "&str", s |-> s]
HealthResponse(status, version) ==
    [ty |-> "HealthResponse", status |-> status, version |-> version]
\* serde_json::Value; j is a tree whose objects are serde_json::Map
Value(j) == [ty |-> "Value", j |-> j]

\* impl Default for HealthResponse
HealthResponse_default == HealthResponse("healthy", shared_version)

\* Serialize for the payload types
Serialize(x) ==
    CASE x.ty = "unit" -> JNull
      [] x.ty = "String" -> JStr(x.s)
      [] x.ty = "&str" -> JStr(x.s)
      [] x.ty = "HealthResponse" ->
            JObj(<< <<"status", JStr(x.status)>>, <<"version", JStr(x.version)>> >>)
      [] x.ty = "Value" -> x.j

(***************************************************************************)
(* ApiResponse<T>                                                          *)
(***************************************************************************)
ApiResponse(s, d, e) == [success |-> s, data |-> d, error |-> e]

success_no_data(data) == ApiResponse(TRUE, None, None)
\* ApiResponse::success
success(data) == ApiResponse(TRUE, Some(data), None)

error_with_success(message) == ApiResponse(TRUE, None, Some(message))
\* ApiResponse::error
error(message) == ApiResponse(FALSE, None, Some(message))

SerializeApiResponse_nulls(r) ==
    JObj(<< <<"success", JBool(r.success)>>,
            <<"data", IF r.data.some THEN Serialize(r.data.v) ELSE JNull>>,
            <<"error", IF r.error.some THEN JStr(r.error.v) ELSE JNull>> >>)
\* derive(Serialize) with skip_serializing_if = "Option::is_none" on data and error
SerializeApiResponse(r) ==
    JObj(<< <<"success", JBool(r.success)>> >>
         \o (IF r.data.some THEN << <<"data", Serialize(r.data.v)>> >> ELSE <<>>)
         \o (IF r.error.some THEN << <<"error", JStr(r.error.v)>> >> ELSE <<>>))

\* serde_json::to_string(&ApiResponse<T>)
to_string(r) == Write(SerializeApiResponse(r))

(***************************************************************************)
(* Deserialize: from a tree read from the text to a typed value            *)
(***************************************************************************)
DeErr == [ok |-> FALSE]
DeOk(v) == [ok |-> TRUE, v |-> v]

LeqDigits(a, b) == Len(a) < Len(b) \/ (Len(a) = Len(b) /\ ~StrLess(b, a))

\* the number is held as an integer (u64 or i64): it has no fraction and
\* no exponent, is not -0 and is in range.  Any other number is held as an
\* f64.
IsInteger(n) ==
    IF StartsWith(n, 1, "-")
    THEN /\ SkipDigits(n, 2) = Len(n) + 1
         /\ n # "-0"
         /\ LeqDigits(SubSeq(n, 2, Len(n)), "9223372036854775808")
    ELSE /\ SkipDigits(n, 1) = Len(n) + 1
         /\ LeqDigits(n, "18446744073709551615")

RECURSIVE Strict(_)
\* no string and no key of the tree holds a lone surrogate: the reader of
\* kept values accepts it
Strict(j) ==
    CASE j.t = "str" -> ~j.lone
      [] j.t = "arr" -> \A i \in 1..Len(j.a) : Strict(j.a[i])
      [] j.t = "obj" -> \A i \in 1..Len(j.m) : ~j.m[i][3].lone /\ Strict(j.m[i][2])
      [] OTHER -> TRUE

RECURSIVE InModel(_)
\* every string, key and number of the tree has a value in the model
InModel(j) ==
    CASE j.t = "str" -> ~j.out
      [] j.t = "num" -> IsInteger(j.n)
      [] j.t = "arr" -> \A i \in 1..Len(j.a) : InModel(j.a[i])
      [] j.t = "obj" -> \A i \in 1..Len(j.m) : ~j.m[i][3].out /\ InModel(j.m[i][2])
      [] OTHER -> TRUE

\* a string the reader of kept values accepts
IsStr(j) == j.t = "str" /\ ~j.lone

\* the text of a kept string; none when it holds a character outside the model
Text(j) == CASE ~j.out -> j.s

\* the keys of an object read into a struct are all read as kept strings
StrictKeys(m) == \A i \in 1..Len(m) : ~m[i][3].lone

RECURSIVE ToValue(_)
\* Deserialize for serde_json::Value, for a tree that is Strict and
\* InModel.  An integer is kept as its digits; the conversion of the other
\* numbers to f64 is outside the model, they have no value here.
ToValue(j) ==
    CASE j.t = "null" -> JNull
      [] j.t = "bool" -> j
      [] j.t = "str" -> JStr(j.s)
      [] j.t = "num" /\ IsInteger(j.n) -> JNum(j.n)
      [] j.t = "arr" -> JArr([i \in 1..Len(j.a) |-> ToValue(j.a[i])])
      [] j.t = "obj" ->
            JObj(JsonMap([i \in 1..Len(j.m) |-> <<j.m[i][1], ToValue(j.m[i][2])>>]))

\* serde_json's reader of kept values counts the arrays and objects it is
\* inside, a struct read by derive(Deserialize) included, and refuses to
\* enter the 128th
RecursionLimit == 128

RECURSIVE WithinRecursionLimit(_, _)
\* the reader of kept values can read the tree j found inside depth
\* enclosing arrays, objects and structs
WithinRecursionLimit(j, depth) ==
    CASE j.t = "arr" ->
            /\ depth + 1 < RecursionLimit
            /\ \A i \in 1..Len(j.a) : WithinRecursionLimit(j.a[i], depth + 1)
      [] j.t = "obj" ->
            /\ depth + 1 < RecursionLimit
            /\ \A i \in 1..Len(j.m) : WithinRecursionLimit(j.m[i][2], depth + 1)
      [] OTHER -> TRUE

\* Deserialize for the payload types, for a tree found inside depth
\* enclosing arrays, objects and structs.  A derived struct is read from an
\* object (each field once, other keys ignored and read without a limit of
\* depth) or from an array of its fields in declaration order, and counts
\* as one level.
DeserializeAt(ty, j, depth) ==
    CASE ty = "unit" -> (IF j.t = "null" THEN DeOk(Unit) ELSE DeErr)
      [] ty = "String" -> (IF IsStr(j) THEN DeOk(String(Text(j))) ELSE DeErr)
      [] ty = "&str" -> (IF IsStr(j) /\ ~j.esc THEN DeOk(StrRef(Text(j))) ELSE DeErr)
      [] ty = "HealthResponse" ->
            (IF depth + 1 >= RecursionLimit THEN DeErr
             ELSE IF /\ j.t = "obj"
                     /\ StrictKeys(j.m)
                     /\ Count(j.m, "status") = 1 /\ Count(j.m, "version") = 1
                     /\ IsStr(Member(j.m, "status"))
                     /\ IsStr(Member(j.m, "version"))
             THEN DeOk(HealthResponse(Text(Member(j.m, "status")),
                                      Text(Member(j.m, "version"))))
             ELSE IF /\ j.t = "arr" /\ Len(j.a) = 2
                     /\ IsStr(j.a[1]) /\ IsStr(j.a[2])
             THEN DeOk(HealthResponse(Text(j.a[1]), Text(j.a[2])))
             ELSE DeErr)
      [] ty = "Value" ->
            (IF ~Strict(j) \/ ~WithinRecursionLimit(j, depth) THEN DeErr
             ELSE CASE InModel(j) -> DeOk(Value(ToValue(j))))

\* Deserialize for T read as the whole document
Deserialize(ty, j) == DeserializeAt(ty, j, 0)

\* Deserialize for Option<T>: null is None, anything else is Some(T)
DeserializeOptionAt(ty, j, depth) ==
    IF j.t = "null" THEN DeOk(None)
    ELSE LET r == DeserializeAt(ty, j, depth)
         IN IF r.ok THEN DeOk(Some(r.v)) ELSE DeErr

DeserializeOption(ty, j) == DeserializeOptionAt(ty, j, 0)

\* derive(Deserialize) for ApiResponse<T>, read as the whole document.  From
\* an object: success is required, a missing Option field is None, a
\* repeated field is an error, other keys are ignored.  From an array: the
\* three fields in order.  The struct is one level of depth for its fields.
DeserializeApiResponse(ty, j) ==
    IF j.t = "arr" THEN
        IF Len(j.a) # 3 \/ j.a[1].t # "bool" THEN DeErr
        ELSE LET d == DeserializeOptionAt(ty, j.a[2], 1)
                 e == DeserializeOptionAt("String", j.a[3], 1)
             IN IF d.ok /\ e.ok
                THEN DeOk(ApiResponse(j.a[1].b, d.v,
                                      IF e.v.some THEN Some(e.v.v.s) ELSE None))
                ELSE DeErr
    ELSE IF j.t # "obj" THEN DeErr
    ELSE LET m == j.m
             d == IF Count(m, "data") = 0 THEN DeOk(None)
                  ELSE DeserializeOptionAt(ty, Member(m, "data"), 1)
             e == IF Count(m, "error") = 0 THEN DeOk(None)
                  ELSE DeserializeOptionAt("String", Member(m, "error"), 1)
         IN IF /\ StrictKeys(m)
               /\ Count(m, "success") = 1 /\ Member(m, "success").t = "bool"
               /\ Count(m, "data") <= 1 /\ Count(m, "error") <= 1
               /\ d.ok /\ e.ok
            THEN DeOk(ApiResponse(Member(m, "success").b, d.v,
                                  IF e.v.some THEN Some(e.v.v.s) ELSE None))
            ELSE DeErr

\* serde_json::from_str::<ApiResponse<T>>
from_str(ty, s) ==
    LET p == Parse(s) IN IF p.ok THEN DeserializeApiResponse(ty, p.v) ELSE DeErr

(***************************************************************************)
(* AppError                                                                *)
(***************************************************************************)
NotFound(m) == [kind |-> "NotFound", msg |-> m]
BadRequest(m) == [kind |-> "BadRequest", msg |-> m]
Internal(m) == [kind |-> "Internal", msg |-> m]
Unauthorized == [kind |-> "Unauthorized"]

status_code_by_message(e) ==
    CASE e.kind = "NotFound" -> (IF e.msg = "" THEN 400 ELSE 404)
      [] e.kind = "BadRequest" -> 400
      [] e.kind = "Internal" -> 500
      [] e.kind = "Unauthorized" -> 401
\* AppError::status_code
status_code(e) ==
    CASE e.kind = "NotFound" -> 404
      [] e.kind = "BadRequest" -> 400
      [] e.kind = "Internal" -> 500
      [] e.kind = "Unauthorized" -> 401

\* Display for AppError (the #[error("...")] attributes)
display(e) ==
    CASE e.kind = "NotFound" -> "Not found: " \o e.msg
      [] e.kind = "BadRequest" -> "Bad request: " \o e.msg
      [] e.kind = "Internal" -> "Internal error: " \o e.msg
      [] e.kind = "Unauthorized" -> "Unauthorized"

(***************************************************************************)
(* The api function: handler and its three endpoints                       *)
(***************************************************************************)
Response(status, headers, body) == [status |-> status, headers |-> headers, body |-> body]

json_response_no_cors(status, body) ==
    Response(status, << <<"content-type", "application/json">> >>, to_string(body))
\* json_response: serialize the body, attach the fixed headers
json_response(status, body) ==
    Response(status,
             << <<"content-type", "application/json">>,
                <<"access-control-allow-origin", "*">>,
                <<"access-control-allow-methods", "GET, POST, PUT, DELETE, OPTIONS">>,
                <<"access-control-allow-headers", "Content-Type, Authorization">> >>,
             to_string(body))

\* `let response = ...` of health_handler
health_response == success(HealthResponse_default)

root_response_short ==
    success(Value(JObj(JsonMap(
        << <<"name", JStr("btl.run API")>>,
           <<"version", JStr(api_version)>>,
           <<"endpoints", JArr(<<JStr("/health")>>)>> >>))))
\* `let response = ...` of root_handler; json! builds a serde_json::Map
root_response ==
    success(Value(JObj(JsonMap(
        << <<"name", JStr("btl.run API")>>,
           <<"version", JStr(api_version)>>,
           <<"endpoints", JArr(<<JStr("/health"), JStr("/api/health")>>)>> >>))))

\* `let response = ...` of not_found_handler
not_found_response(path) == error("Not found: " \o path)

health_handler == json_response(200, health_response)
root_handler == json_response(200, root_response)
not_found_handler_200(path) == json_response(200, not_found_response(path))
not_found_handler(path) == json_response(404, not_found_response(path))

route_path_only(method, path) ==
    IF path \in {"/health", "/api/health"} THEN "health"
    ELSE IF path \in {"/", "/api"} THEN "root"
    ELSE "not_found"
\* the match of handler: which arm a (method, path) pair selects
route(method, path) ==
    IF <<method, path>> \in {<<"GET", "/health">>, <<"GET", "/api/health">>} THEN "health"
    ELSE IF <<method, path>> \in {<<"GET", "/">>, <<"GET", "/api">>} THEN "root"
    ELSE "not_found"

\* handler, run from start to end on one request
handler(method, path) ==
    CASE route(method, path) = "health" -> health_handler
      [] route(method, path) = "root" -> root_handler
      [] route(method, path) = "not_found" -> not_found_handler(path)

(***************************************************************************)
(* Inputs                                                                  *)
(***************************************************************************)
Versions == {"0.1.0", "1.2.3"}

Methods == {"GET", "POST", "OPTIONS", "get"}

RoutedPaths == {"/health", "/api/health", "/", "/api"}

EditChars == {"x", "/"}

\* every path one edit (a character replaced, dropped or inserted) away from p
Edits(p) ==
    {SubSeq(p, 1, i - 1) \o c \o SubSeq(p, i + 1, Len(p)) : i \in 1..Len(p), c \in EditChars}
    \cup {SubSeq(p, 1, i - 1) \o SubSeq(p, i + 1, Len(p)) : i \in 1..Len(p)}
    \cup {SubSeq(p, 1, i) \o c \o SubSeq(p, i + 1, Len(p)) : i \in 0..Len(p), c \in EditChars}

Paths ==
    {p \in RoutedPaths \cup UNION {Edits(r) : r \in RoutedPaths} : StartsWith(p, 1, "/")}
    \cup {"/Health", "/API", "/unknown/path", "/a\"b", "/a\\b", "/health%20"}

Queries == {None, Some("x=1")}

Event(method, path, query) == [method |-> method, path |-> path, query |-> query]

Events == {Event(m, p, q) : m \in Methods, p \in Paths, q \in Queries}

ConcEvents ==
    {Event("GET", "/health", None), Event("POST", "/health", None),
     Event("GET", "/api", None), Event("GET", "/a\"b", Some("x=1"))}

(***************************************************************************)
(* The run loop: the runtime hands events to handler, one per slot         *)
(***************************************************************************)
Idle == [pc |-> "idle"]

\* main up to the run loop: tracing is set up and the start-up entry logged
Main ==
    /\ main_pc = "start"
    /\ main_pc' = "run"
    /\ nlog' = nlog + 1
    /\ UNCHANGED <<shared_version, api_version, slots, probe>>

\* requests handed to handler so far: each logs one entry when dispatched,
\* after the start-up entry
Admitted == (nlog - 1) + Cardinality({s \in DOMAIN slots : slots[s].pc = "received"})

\* run(service_fn(handler)): the runtime invokes handler on an event
Receive(s, event) ==
    /\ main_pc = "run"
    /\ slots[s].pc = "idle"
    /\ Admitted < MaxRequests
    /\ slots' = [slots EXCEPT ![s] = [pc |-> "received", event |-> event]]
    /\ UNCHANGED <<shared_version, api_version, main_pc, nlog, probe>>

\* handler up to the match: read path and method, log, select the arm
Dispatch(s) ==
    /\ slots[s].pc = "received"
    /\ nlog' = nlog + 1
    /\ slots' = [slots EXCEPT ![s] =
            [pc |-> "routed", event |-> slots[s].event,
             path |-> slots[s].event.path,
             route |-> route(slots[s].event.method, slots[s].event.path)]]
    /\ UNCHANGED <<shared_version, api_version, main_pc, probe>>

Done(s, response, result) ==
    slots' = [slots EXCEPT ![s] =
        [pc |-> "done", event |-> slots[s].event, route |-> slots[s].route,
         response |-> response, result |-> result]]

HealthHandler(s) ==
    /\ slots[s].pc = "routed" /\ slots[s].route = "health"
    /\ Done(s, health_response, health_handler)
    /\ UNCHANGED <<shared_version, api_version, main_pc, nlog, probe>>

RootHandler(s) ==
    /\ slots[s].pc = "routed" /\ slots[s].route = "root"
    /\ Done(s, root_response, root_handler)
    /\ UNCHANGED <<shared_version, api_version, main_pc, nlog, probe>>

NotFoundHandler_shared_path(s) ==
    /\ slots[s].pc = "routed" /\ slots[s].route = "not_found"
    /\ \E o \in DOMAIN slots :
        /\ slots[o].pc = "routed"
        /\ \A u \in DOMAIN slots : slots[u].pc = "routed" => u <= o
        /\ Done(s, not_found_response(slots[o].path), not_found_handler(slots[o].path))
    /\ UNCHANGED <<shared_version, api_version, main_pc, nlog, probe>>
NotFoundHandler(s) ==
    /\ slots[s].pc = "routed" /\ slots[s].route = "not_found"
    /\ Done(s, not_found_response(slots[s].path), not_found_handler(slots[s].path))
    /\ UNCHANGED <<shared_version, api_version, main_pc, nlog, probe>>

\* the response goes back to the runtime; the slot is free again
Return(s) ==
    /\ slots[s].pc = "done"
    /\ slots' = [slots EXCEPT ![s] = Idle]
    /\ UNCHANGED <<shared_version, api_version, main_pc, nlog, probe>>

\* the runtime handing requests one at a time
Init ==
    /\ shared_version \in Versions
    /\ api_version \in Versions
    /\ slots = [s \in 1..1 |-> Idle]
    /\ main_pc = "start"
    /\ nlog = 0
    /\ probe = [pc |-> "off"]

Next ==
    \/ Main
    \/ \E s \in DOMAIN slots, e \in Events : Receive(s, e)
    \/ \E s \in DOMAIN slots : Dispatch(s)
    \/ \E s \in DOMAIN slots : HealthHandler(s)
    \/ \E s \in DOMAIN slots : RootHandler(s)
    \/ \E s \in DOMAIN slots : NotFoundHandler(s)
    \/ \E s \in DOMAIN slots : Return(s)

Spec == Init /\ [][Next]_vars

\* handler invoked concurrently for several requests in flight
InitConc ==
    /\ shared_version \in Versions
    /\ api_version \in Versions
    /\ slots = [s \in 1..NumSlots |-> Idle]
    /\ main_pc = "start"
    /\ nlog = 0
    /\ probe = [pc |-> "off"]

NextConc ==
    \/ Main
    \/ \E s \in DOMAIN slots, e \in ConcEvents : Receive(s, e)
    \/ \E s \in DOMAIN slots : Dispatch(s)
    \/ \E s \in DOMAIN slots : HealthHandler(s)
    \/ \E s \in DOMAIN slots : RootHandler(s)
    \/ \E s \in DOMAIN slots : NotFoundHandler(s)
    \/ \E s \in DOMAIN slots : Return(s)

SpecConc == InitConc /\ [][NextConc]_vars

(***************************************************************************)
(* The shared library on its own: one value is constructed, written to     *)
(* JSON and read back; one error is mapped to its status and its text      *)
(***************************************************************************)
MsgChars == {"a", "\"", "\\", "\n", "\t", FromCode(27)}

RECURSIVE StringsUpTo(_)
StringsUpTo(n) ==
    IF n = 0 THEN {""}
    ELSE StringsUpTo(n - 1) \cup {m \o c : m \in StringsUpTo(n - 1), c \in MsgChars}

Msgs == StringsUpTo(MaxMsgLen) \cup {"something went wrong", "/health"}

RECURSIVE Nested(_)
\* n arrays, each the only element of the one around it, around a string
Nested(n) == IF n = 0 THEN JStr("a") ELSE JArr(<<Nested(n - 1)>>)

\* the values, nested ones included; all of them are shallower than
\* RecursionLimit
Values ==
    {Nested(MaxDepth), JObj(<< <<"a", Nested(MaxDepth - 1)>> >>),
     JNull, JBool(TRUE), JBool(FALSE), JStr(""), JStr("a\"\\"),
     JNum("0"), JNum("-12"),
     JArr(<<>>), JArr(<<JNull, JStr("/health"), JNum("7")>>), JObj(<<>>),
     JObj(JsonMap(<< <<"name", JStr("btl.run API")>>,
                     <<"endpoints", JArr(<<JStr("/health")>>)>>,
                     <<"data", JNull>> >>)),
     JObj(JsonMap(<< <<"error", JObj(JsonMap(<< <<"a\"", JBool(FALSE)>> >>))>> >>))}

Payloads ==
    {Unit}
    \cup {String(m) : m \in Msgs}
    \cup {StrRef(m) : m \in Msgs \cup {"test data"}}
    \cup {HealthResponse(st, v) : st \in {"healthy", "a\"\n"}, v \in Versions}
    \cup {Value(j) : j \in Values}

Types == {"unit", "String", "&str", "HealthResponse", "Value"}

AppErrors ==
    {NotFound(m) : m \in Msgs} \cup {BadRequest(m) : m \in Msgs}
    \cup {Internal(m) : m \in Msgs} \cup {Unauthorized}

Inputs ==
    {[op |-> "success", ty |-> x.ty, x |-> x] : x \in Payloads}
    \cup {[op |-> "error", ty |-> ty, msg |-> m] : ty \in Types, m \in Msgs}
    \cup {[op |-> "status_code", e |-> e] : e \in AppErrors}

\* ApiResponse::success(x) or ApiResponse::<T>::error(msg)
Construct ==
    /\ probe.pc = "input" /\ probe.in.op \in {"success", "error"}
    /\ probe' = [pc |-> "built", in |-> probe.in,
                 env |-> IF probe.in.op = "success" THEN success(probe.in.x)
                         ELSE error(probe.in.msg)]
    /\ UNCHANGED <<shared_version, api_version, slots, main_pc, nlog>>

\* serde_json::to_string(&env)
WriteJson ==
    /\ probe.pc = "built"
    /\ probe' = [pc |-> "written", in |-> probe.in, env |-> probe.env,
                 json |-> to_string(probe.env)]
    /\ UNCHANGED <<shared_version, api_version, slots, main_pc, nlog>>

\* serde_json::from_str::<ApiResponse<T>>(&json)
ReadJson ==
    /\ probe.pc = "written"
    /\ probe' = [pc |-> "read", in |-> probe.in, env |-> probe.env,
                 json |-> probe.json, back |-> from_str(probe.in.ty, probe.json)]
    /\ UNCHANGED <<shared_version, api_version, slots, main_pc, nlog>>

\* e.status_code() and e.to_string()
StatusCode ==
    /\ probe.pc = "input" /\ probe.in.op = "status_code"
    /\ probe' = [pc |-> "mapped", in |-> probe.in,
                 status |-> status_code(probe.in.e), text |-> display(probe.in.e)]
    /\ UNCHANGED <<shared_version, api_version, slots, main_pc, nlog>>

InitEnvelope ==
    /\ shared_version \in Versions
    /\ api_version = shared_version
    /\ slots = [s \in 1..1 |-> Idle]
    /\ main_pc = "start"
    /\ nlog = 0
    /\ probe \in {[pc |-> "input", in |-> i] : i \in Inputs}

NextEnvelope == Construct \/ WriteJson \/ ReadJson \/ StatusCode

SpecEnvelope == InitEnvelope /\ [][NextEnvelope]_vars

(***************************************************************************)
(* Properties                                                              *)
(***************************************************************************)
DoneSlots == {s \in DOMAIN slots : slots[s].pc = "done"}

RoutingTable ==
    {<<"GET", "/health">>, <<"GET", "/api/health">>, <<"GET", "/">>, <<"GET", "/api">>}

Unmatched(s) == <<slots[s].event.method, slots[s].event.path>> \notin RoutingTable

\* the members of the JSON object that a response body is
BodyMembers(body) == Parse(body).v.m

FixedHeaders ==
    {<<"content-type", "application/json">>,
     <<"access-control-allow-origin", "*">>,
     <<"access-control-allow-methods", "GET, POST, PUT, DELETE, OPTIONS">>,
     <<"access-control-allow-headers", "Content-Type, Authorization">>}

\* C1: every request outside the routing table (a routed path with another
\* method, a path that differs from a routed one in a character) is answered
\* with status 404 and the JSON object {"success":false,"error":"Not found:
\* <path>"} whose error string carries exactly the requested path and which
\* has no data key; when the path needs no JSON escape the body is that text
\* character for character.
C1_NotFound ==
    \A s \in DoneSlots :
        Unmatched(s) =>
            LET r == slots[s].result
                p == slots[s].event.path
                b == Parse(r.body)
            IN /\ r.status = 404
               /\ b.ok /\ b.v.t = "obj" /\ Len(b.v.m) = 2
               /\ Keys(b.v.m) = {"success", "error"}
               /\ Member(b.v.m, "success").t = "bool"
               /\ Member(b.v.m, "success").b = FALSE
               /\ Member(b.v.m, "error").t = "str"
               /\ Member(b.v.m, "error").s = "Not found: " \o p
               /\ Escape(p) = p =>
                    r.body = "{\"success\":false,\"error\":\"Not found: " \o p \o "\"}"

C1_Witness ==
    \E s \in DoneSlots :
        /\ slots[s].event.method = "POST" /\ slots[s].event.path = "/health"
        /\ slots[s].result.status = 404
        /\ slots[s].result.body = "{\"success\":false,\"error\":\"Not found: /health\"}"

\* C2: GET /health and GET /api/health select the health handler and return
\* its output, status 200 and a success envelope with data {status:"healthy",
\* version}; GET / and GET /api select the root handler and return its
\* output, status 200 and a success envelope with data {name:"btl.run API",
\* version, endpoints:["/health","/api/health"]}.
C2_Routed ==
    \A s \in DoneSlots :
        LET m == slots[s].event.method
            p == slots[s].event.path
            r == slots[s].result
            b == Parse(r.body)
            d == Member(b.v.m, "data")
        IN /\ <<m, p>> \in {<<"GET", "/health">>, <<"GET", "/api/health">>} =>
                /\ slots[s].route = "health"
                /\ r = json_response(200, slots[s].response)
                /\ r.status = 200
                /\ r.body = "{\"success\":true,\"data\":{\"status\":\"healthy\",\"version\":\""
                            \o shared_version \o "\"}}"
                /\ b.ok /\ b.v.t = "obj" /\ Len(b.v.m) = 2
                /\ Keys(b.v.m) = {"success", "data"}
                /\ Member(b.v.m, "success").t = "bool"
                /\ Member(b.v.m, "success").b = TRUE
                /\ d.t = "obj" /\ Len(d.m) = 2
                /\ Keys(d.m) = {"status", "version"}
                /\ Member(d.m, "status").t = "str"
                /\ Member(d.m, "status").s = "healthy"
                /\ Member(d.m, "version").t = "str"
                /\ Member(d.m, "version").s = shared_version
           /\ <<m, p>> \in {<<"GET", "/">>, <<"GET", "/api">>} =>
                /\ slots[s].route = "root"
                /\ r = json_response(200, slots[s].response)
                /\ r.status = 200
                /\ b.ok /\ b.v.t = "obj" /\ Len(b.v.m) = 2
                /\ Keys(b.v.m) = {"success", "data"}
                /\ Member(b.v.m, "success").t = "bool"
                /\ Member(b.v.m, "success").b = TRUE
                /\ d.t = "obj" /\ Len(d.m) = 3
                /\ Keys(d.m) = {"name", "version", "endpoints"}
                /\ Member(d.m, "name").t = "str"
                /\ Member(d.m, "name").s = "btl.run API"
                /\ Member(d.m, "version").t = "str"
                /\ Member(d.m, "version").s = api_version
                /\ Member(d.m, "endpoints").t = "arr"
                /\ Len(Member(d.m, "endpoints").a) = 2
                /\ Member(d.m, "endpoints").a[1].t = "str"
                /\ Member(d.m, "endpoints").a[1].s = "/health"
                /\ Member(d.m, "endpoints").a[2].t = "str"
                /\ Member(d.m, "endpoints").a[2].s = "/api/health"

C2_Witness ==
    /\ \E s \in DoneSlots :
        /\ slots[s].event.method = "GET" /\ slots[s].event.path = "/api"
        /\ slots[s].result.status = 200
        /\ slots[s].response.data.some

\* C3: every envelope built while a request is handled, and the body that
\* carries it, has exactly one of data and error, and success is true
\* exactly when it is data.
C3_Envelope ==
    \A s \in DoneSlots :
        LET e == slots[s].response
            k == Keys(BodyMembers(slots[s].result.body))
        IN /\ e.data.some # e.error.some
           /\ e.success <=> (e.data.some /\ ~e.error.some)
           /\ ("data" \in k) # ("error" \in k)
           /\ Member(BodyMembers(slots[s].result.body), "success").b
                <=> ("data" \in k /\ "error" \notin k)

C3_Witness ==
    \E s \in DoneSlots :
        /\ slots[s].route = "not_found"
        /\ slots[s].response.error.some /\ ~slots[s].response.data.some
        /\ ~slots[s].response.success

\* C4: success(x) is success=true, data=x, error absent (and no error key is
\* written); error(msg) is success=false, data absent, error=msg.
C4_Constructors ==
    probe.pc \in {"built", "written", "read"} =>
        /\ probe.in.op = "success" =>
            probe.env = [success |-> TRUE, data |-> Some(probe.in.x), error |-> None]
        /\ probe.in.op = "error" =>
            probe.env = [success |-> FALSE, data |-> None, error |-> Some(probe.in.msg)]
        /\ (probe.pc = "written" /\ probe.in.op = "success") =>
            "error" \notin Keys(BodyMembers(probe.json))
        /\ (probe.pc = "written" /\ probe.in.op = "error") =>
            "data" \notin Keys(BodyMembers(probe.json))

C4_Witness ==
    /\ probe.pc = "built" /\ probe.in.op = "success"
    /\ probe.in.x = StrRef("test data")
    /\ probe.env.data = Some(StrRef("test data"))

\* C5: reading back the written success(x) gives success=true and
\* data = x for every payload, the unit payload included; reading back the
\* written error(msg) gives success=false, no data and error = msg.
C5_RoundTrip ==
    probe.pc = "read" =>
        /\ probe.in.op = "success" =>
            probe.back = DeOk(ApiResponse(TRUE, Some(probe.in.x), None))
        /\ probe.in.op = "error" =>
            probe.back = DeOk(ApiResponse(FALSE, None, Some(probe.in.msg)))

\* What the code does on these inputs (C5 fails on the first three cases):
\* a payload whose JSON form is null (the unit payload, a JSON null) is read
\* back as success=true with data absent; a borrowed string that needs a
\* JSON escape cannot be read back; a JSON value nested so deep that, inside
\* the envelope, it reaches RecursionLimit is written but cannot be read
\* back (Payloads holds no value that deep: the case follows from
\* DeserializeAt and is not one of the states explored); every other payload
\* is read back as success=true with data = x; an error envelope is read
\* back as success=false, no data, error = msg, for every message.
ActualRoundTrip ==
    probe.pc = "read" =>
        /\ probe.in.op = "success" =>
            probe.back =
                IF Serialize(probe.in.x) = JNull
                THEN DeOk(ApiResponse(TRUE, None, None))
                ELSE IF probe.in.ty = "&str" /\ Escape(probe.in.x.s) # probe.in.x.s
                THEN DeErr
                ELSE IF /\ probe.in.ty = "Value"
                        /\ ~WithinRecursionLimit(Serialize(probe.in.x), 1)
                THEN DeErr
                ELSE DeOk(ApiResponse(TRUE, Some(probe.in.x), None))
        /\ probe.in.op = "error" =>
            probe.back = DeOk(ApiResponse(FALSE, None, Some(probe.in.msg)))

\* C6: the written JSON has a data key exactly when data is present and an
\* error key exactly when error is present; a null under one of these keys
\* is never the sign of a missing field.
C6_OmitsAbsent ==
    probe.pc \in {"written", "read"} =>
        LET t == Parse(probe.json) IN
        /\ t.ok /\ t.v.t = "obj"
        /\ Count(t.v.m, "data") = (IF probe.env.data.some THEN 1 ELSE 0)
        /\ Count(t.v.m, "error") = (IF probe.env.error.some THEN 1 ELSE 0)
        /\ \A i \in 1..Len(t.v.m) :
            (t.v.m[i][1] \in {"data", "error"} /\ t.v.m[i][2] = JNull) =>
                /\ t.v.m[i][1] = "data"
                /\ probe.env.data.some
                /\ Serialize(probe.env.data.v) = JNull

C6_Witness ==
    /\ probe.pc = "written" /\ probe.in.op = "error"
    /\ ~probe.env.data.some
    /\ probe.json = "{\"success\":false,\"error\":\"something went wrong\"}"

\* C7: status_code maps NotFound to 404, BadRequest to 400, Internal to 500
\* and Unauthorized to 401, whatever the message.
C7_StatusMapping ==
    probe.pc = "mapped" =>
        /\ probe.in.e.kind = "NotFound" => probe.status = 404
        /\ probe.in.e.kind = "BadRequest" => probe.status = 400
        /\ probe.in.e.kind = "Internal" => probe.status = 500
        /\ probe.in.e.kind = "Unauthorized" => probe.status = 401
        /\ probe.status \in {404, 400, 500, 401}

C7_Witness ==
    /\ probe.pc = "mapped"
    /\ probe.in.e = NotFound("")
    /\ probe.status = 404

\* C8: whatever else is in flight, the response of a request is the one
\* handler gives for its method and path alone; two requests with the same
\* method and path get the same response.
C8_Stateless ==
    /\ \A s \in DoneSlots :
        slots[s].result = handler(slots[s].event.method, slots[s].event.path)
    /\ \A s, u \in DoneSlots :
        (/\ slots[s].event.method = slots[u].event.method
         /\ slots[s].event.path = slots[u].event.path)
            => slots[s].result = slots[u].result

C8_Witness ==
    \E s, u \in DOMAIN slots :
        /\ s # u
        /\ slots[s].pc = "done" /\ slots[s].route = "not_found"
        /\ slots[u].pc = "done" /\ slots[u].route = "not_found"
        /\ slots[s].event.path # slots[u].event.path
        /\ slots[s].result # slots[u].result

\* C9: every response carries the four fixed headers, and only them.
C9_Headers ==
    \A s \in DoneSlots :
        LET h == slots[s].result.headers IN
        /\ Len(h) = 4
        /\ {h[i] : i \in 1..Len(h)} = FixedHeaders

C9_Witness ==
    \E s \in DoneSlots :
        /\ slots[s].route = "not_found"
        /\ Len(slots[s].result.headers) = 4
        /\ slots[s].result.headers[1] = <<"content-type", "application/json">>

\* C10: the hardcoded statuses agree with the error taxonomy: an unmatched
\* request for path p gets the status of NotFound(p) and the display text of
\* NotFound(p) as its error; the status is 200 exactly for success=true
\* bodies, 404 exactly for success=false bodies, and nothing else.
C10_Agreement ==
    \A s \in DoneSlots :
        LET r == slots[s].result
            p == slots[s].event.path
            ok == Member(BodyMembers(r.body), "success").b
        IN /\ Unmatched(s) =>
                /\ r.status = status_code(NotFound(p))
                /\ slots[s].response.error = Some(display(NotFound(p)))
                /\ Member(BodyMembers(r.body), "error").s = display(NotFound(p))
           /\ r.status \in {200, 404}
           /\ r.status = 200 <=> ok
           /\ r.status = 404 <=> ~ok
           /\ ok = slots[s].response.success

C10_Witness ==
    \E s \in DoneSlots :
        /\ Unmatched(s)
        /\ slots[s].event.path = "/unknown/path"
        /\ slots[s].result.status = 404
        /\ slots[s].response.error = Some("Not found: /unknown/path")

====
